---- MODULE Spec2Model ----
(***************************************************************************)
(* Model of homeassistant/components/alert/__init__.py: one Alert entity,  *)
(* its watched-entity callback, its repeat timer and its acknowledge       *)
(* operations.                                                             *)
(*                                                                         *)
(* Every coroutine of the Alert class mutates the object's fields without  *)
(* a real suspension point in between, so one action is one handler run to *)
(* completion.  The timer helper (event.async_track_point_in_time) and the *)
(* event loop are not part of the component: a timer is pending until it   *)
(* is cancelled or expires, and an expired timer's callback (_trigger) is  *)
(* delivered as a later task, so other handlers may run in between.  The   *)
(* clock is not modelled: a handler takes no time and any amount of time   *)
(* may pass between two handlers, so a pending timer may expire at any     *)
(* step.  The alert can cancel one timer only, the one whose cancel        *)
(* function it stored last in self._cancel; pending timers are therefore   *)
(* counted in two groups, the one held through self._cancel and the        *)
(* orphaned ones whose function has been overwritten.                      *)
(*                                                                         *)
(* Spec, SpecAny and SpecFair run one Alert object on its own; SpecHass    *)
(* runs async_setup and the alert services in the host.                    *)
(***************************************************************************)
EXTENDS Naturals, Sequences, FiniteSets, TLC

VARIABLES
    self,       \* the Alert object: configuration and runtime fields
    timers,     \* timer service: pending timers, [held, orphaned]
    fired,      \* timer service: expired timers whose callback has not run yet
    published,  \* state written to the host state machine: NoState or [state, hidden]
    last,       \* effects of the most recent handler
    hist,       \* history since the most recent call of begin_alerting
    hass        \* the component in its host: configuration, setup, services

vars == <<self, timers, fired, published, last, hist, hass>>

(***************************************************************************)
(* Bounds                                                                  *)
(***************************************************************************)
MaxLen    == 3      \* longest repeat list
MaxDelay  == 1      \* largest repeat delay (minutes)
MaxTimers == 2      \* most timers outstanding (pending or expired) at once
MaxSched  == 5      \* schedules per episode counted exactly below this
MaxAlerts == 2      \* most alerts in the configuration of the component

(***************************************************************************)
(* Constants of the environment                                            *)
(***************************************************************************)
STATE_ON   == "on"
STATE_OFF  == "off"
STATE_IDLE == "idle"
None       == "None"     \* self._cancel before the first schedule
Handle     == "handle"   \* self._cancel once a cancel function is stored
NoState    == [state |-> "none", hidden |-> TRUE]

WatchedStates == {STATE_ON, STATE_OFF}
AlertStates   == {STATE_ON}
DEFAULT_CAN_ACK == TRUE     \* const.DEFAULT_CAN_ACK
TRIGGERED     == 1          \* self._triggered_script
DONE          == 2          \* self._done_script

Min(a, b) == IF a < b THEN a ELSE b

Range(f) == {f[i] : i \in DOMAIN f}

\* repeat lists accepted by ALERT_SCHEMA that have at least one entry.  No
\* code branches on a delay, so the lists tried are those in which
\* neighbouring entries differ and the entry used can be told from the
\* delay: 1..MaxLen delays that start anywhere in 0..MaxDelay and step
\* through 0..MaxDelay cyclically.
RepeatLists ==
    {[i \in 1..n |-> (first + i - 1) % (MaxDelay + 1)] : n \in 1..MaxLen, first \in 0..MaxDelay}

(***************************************************************************)
(* The machine threaded through the methods: the object, the timer         *)
(* service, the published state and the effects of the running handler.    *)
(***************************************************************************)
\* calls[i] is the i-th call the handler made on a collaborator:
\*   "_execute_script" with arg TRIGGERED or DONE   (lines 248, 255)
\*   "async_run" with arg TRIGGERED or DONE         (line 261)
\*   "async_track_point_in_time" with the delay     (line 234)
\*   "_cancel" with the handle                      (line 223)
\*   "async_update_ha_state"                        (lines 218, 228, 267, 273)
NoEffects ==
    [calls |-> <<>>,
     begun |-> FALSE,   \* begin_alerting ran
     ended |-> FALSE,   \* end_alerting ran past its cancel call
     fails |-> FALSE,   \* script.async_run raises if it is run in this handler
     raised |-> ""]     \* the exception that ended the handler, "" if none

Call(name, arg) == [call |-> name, arg |-> arg]

\* the arguments of the calls of `name` in a call sequence, in order
RECURSIVE Args(_, _)
Args(calls, name) ==
    IF calls = <<>> THEN <<>>
    ELSE LET rest == Args(Tail(calls), name)
         IN IF Head(calls).call = name THEN <<Head(calls).arg>> \o rest ELSE rest

\* an exception raised by a statement ends the method and each of its
\* callers: the statements after it are not executed, the assignments made
\* before it stay
Raised(m) == m.out.raised # ""

Raise(m, exception) == [m EXCEPT !.out.raised = exception]

\* the scripts of the alert raise (fails) or complete when they are run
WithScripts(m, fails) == [m EXCEPT !.out.fails = fails]

Machine(s, t, f, p) == [self |-> s, timers |-> t, fired |-> f, published |-> p, out |-> NoEffects]

NoTimers == [held |-> 0, orphaned |-> 0]

\* timers pending or expired and not yet delivered
Outstanding(t, f) == t.held + t.orphaned + f

\* self._cancel = event.async_track_point_in_time(hass, action, now() + delay):
\* a new timer is pending and its cancel function replaces the stored one,
\* which orphans the timer held so far if that one is still pending
async_track_point_in_time(m, delay) ==
    [m EXCEPT !.timers = [held |-> 1, orphaned |-> @.orphaned + @.held],
              !.self._cancel = Handle,
              !.out.calls = Append(@, Call("async_track_point_in_time", delay))]

\* self._cancel(): the timer the stored function belongs to is removed if
\* it is pending; if it has expired already the call does nothing
cancel_timer(m) ==
    [m EXCEPT !.timers.held = 0,
              !.out.calls = Append(@, Call("_cancel", 0))]

(***************************************************************************)
(* Alert.state, Alert.hidden                                               *)
(***************************************************************************)
\* state that looks at the acknowledgement before the trigger flag
state_ack_first(s) ==
    IF s._ack THEN STATE_OFF
    ELSE IF s._triggered THEN STATE_ON ELSE STATE_IDLE

\* Alert.state
state(s) ==
    IF s._triggered
    THEN IF s._ack THEN STATE_OFF ELSE STATE_ON
    ELSE STATE_IDLE

\* Alert.hidden
hidden(s) == (~s._can_ack) \/ (~s._triggered)

\* Entity.async_update_ha_state / async_schedule_update_ha_state: the state
\* and the hidden attribute are read from the object and written out
async_update_ha_state(m) ==
    [m EXCEPT !.published = [state |-> state(m.self), hidden |-> hidden(m.self)],
              !.out.calls = Append(@, Call("async_update_ha_state", 0))]

(***************************************************************************)
(* Alert._execute_script as it is called from _trigger and _done:          *)
(* `self._execute_script(script)` without await.  The call is made and     *)
(* yields a coroutine object that nobody awaits, so the body (script is    *)
(* None / script.async_run) is not executed: no "async_run" call follows.  *)
(***************************************************************************)
\* _execute_script awaited: the body runs inside the handler
_execute_script_awaited(m, script) ==
    LET m1 == [m EXCEPT !.out.calls = Append(Append(@, Call("_execute_script", script)),
                                             Call("async_run", script))]
    IN IF m.out.fails THEN Raise(m1, "ScriptError") ELSE m1

\* whether the script would raise (m.out.fails) makes no difference: it is
\* not run
_execute_script(m, script) ==
    [m EXCEPT !.out.calls = Append(@, Call("_execute_script", script))]

\* _schedule_trigger that advances the cursor only while unacknowledged
_schedule_trigger_frozen_by_ack(m) ==
    LET delay == m.self._delay[m.self._next_delay + 1]
        m1    == async_track_point_in_time(m, delay)
    IN [m1 EXCEPT !.self._next_delay = IF m.self._ack THEN @
                                       ELSE Min(@ + 1, Len(m.self._delay) - 1)]

\* Alert._schedule_trigger; self._delay[self._next_delay] raises IndexError
\* when the cursor is not an index of the list
_schedule_trigger(m) ==
    IF m.self._next_delay >= Len(m.self._delay)
    THEN Raise(m, "IndexError")
    ELSE LET delay == m.self._delay[m.self._next_delay + 1]
             m1    == async_track_point_in_time(m, delay)
         IN [m1 EXCEPT !.self._next_delay = Min(@ + 1, Len(m.self._delay) - 1)]

\* _trigger without the test of lines 241-242
_trigger_unguarded(m) ==
    LET m1 == IF ~m.self._ack
              THEN _execute_script([m EXCEPT !.self._execute_done_script = TRUE],
                                   TRIGGERED)
              ELSE m
    IN _schedule_trigger(m1)

\* _trigger that returns without rescheduling when acknowledged
_trigger_ack_stops(m) ==
    IF ~m.self._triggered \/ m.self._ack
    THEN m
    ELSE _schedule_trigger(_execute_script([m EXCEPT !.self._execute_done_script = TRUE],
                                           TRIGGERED))

\* Alert._trigger
_trigger(m) ==
    IF ~m.self._triggered
    THEN m
    ELSE LET m1 == IF ~m.self._ack
                   THEN _execute_script([m EXCEPT !.self._execute_done_script = TRUE],
                                        TRIGGERED)
                   ELSE m
         IN IF Raised(m1) THEN m1 ELSE _schedule_trigger(m1)

\* _done without line 254: the flag survives the done action
_done_keeps_flag(m) == _execute_script(m, DONE)

\* Alert._done
_done(m) ==
    _execute_script([m EXCEPT !.self._execute_done_script = FALSE], DONE)

\* begin_alerting without lines 215-216: skipping the first notification
\* schedules nothing
begin_alerting_skip_unscheduled(m) ==
    LET m1 == [m EXCEPT !.self._ack = FALSE,
                        !.self._triggered = TRUE,
                        !.self._next_delay = 0,
                        !.out.begun = TRUE]
        m2 == IF ~m1.self._skip_first THEN _trigger(m1) ELSE m1
    IN async_update_ha_state(m2)

\* begin_alerting without line 211: the cursor of the last episode is kept
begin_alerting_keeps_cursor(m) ==
    LET m1 == [m EXCEPT !.self._ack = FALSE,
                        !.self._triggered = TRUE,
                        !.out.begun = TRUE]
        m2 == IF ~m1.self._skip_first THEN _trigger(m1) ELSE _schedule_trigger(m1)
    IN async_update_ha_state(m2)

\* begin_alerting with the test of line 213 inverted
begin_alerting_inverted(m) ==
    LET m1 == [m EXCEPT !.self._ack = FALSE,
                        !.self._triggered = TRUE,
                        !.self._next_delay = 0,
                        !.out.begun = TRUE]
        m2 == IF m1.self._skip_first THEN _trigger(m1) ELSE _schedule_trigger(m1)
    IN async_update_ha_state(m2)

\* Alert.begin_alerting
begin_alerting(m) ==
    LET m1 == [m EXCEPT !.self._ack = FALSE,
                        !.self._triggered = TRUE,
                        !.self._next_delay = 0,
                        !.out.begun = TRUE]
        m2 == IF ~m1.self._skip_first THEN _trigger(m1) ELSE _schedule_trigger(m1)
    IN IF Raised(m2) THEN m2 ELSE async_update_ha_state(m2)

\* end_alerting without line 224: the acknowledgement survives the exit
end_alerting_keeps_ack(m) ==
    LET m1 == cancel_timer(m)
        m2 == [m1 EXCEPT !.self._triggered = FALSE, !.out.ended = TRUE]
        m3 == IF m2.self._execute_done_script THEN _done(m2) ELSE m2
    IN async_update_ha_state(m3)

\* end_alerting without line 223: the pending timer is left running
end_alerting_no_cancel(m) ==
    LET m2 == [m EXCEPT !.self._ack = FALSE,
                        !.self._triggered = FALSE,
                        !.out.ended = TRUE]
        m3 == IF m2.self._execute_done_script THEN _done(m2) ELSE m2
    IN async_update_ha_state(m3)

\* Alert.end_alerting; self._cancel() raises TypeError while self._cancel
\* is None
end_alerting(m) ==
    LET m1 == IF m.self._cancel = None THEN Raise(m, "TypeError") ELSE cancel_timer(m)
        m2 == [m1 EXCEPT !.self._ack = FALSE,
                         !.self._triggered = FALSE,
                         !.out.ended = TRUE]
        m3 == IF m2.self._execute_done_script THEN _done(m2) ELSE m2
    IN IF Raised(m1) THEN m1
       ELSE IF Raised(m3) THEN m3 ELSE async_update_ha_state(m3)

\* watched_entity_change without the `not self._triggered` test of line 201
watched_entity_change_reenters(m, to_state) ==
    LET m1 == IF to_state = m.self._alert_state THEN begin_alerting(m) ELSE m
    IN IF to_state # m1.self._alert_state /\ m1.self._triggered
       THEN end_alerting(m1) ELSE m1

\* Alert.watched_entity_change
watched_entity_change(m, to_state) ==
    LET m1 == IF to_state = m.self._alert_state /\ ~m.self._triggered
              THEN begin_alerting(m) ELSE m
    IN IF Raised(m1) THEN m1
       ELSE IF to_state # m1.self._alert_state /\ m1.self._triggered
            THEN end_alerting(m1) ELSE m1

\* async_turn_on that also restarts the repeat cursor
async_turn_on_restarts(m) ==
    async_update_ha_state([m EXCEPT !.self._ack = FALSE, !.self._next_delay = 0])

\* Alert.async_turn_on
async_turn_on(m) == async_update_ha_state([m EXCEPT !.self._ack = FALSE])

\* async_turn_off that flips the flag instead of setting it
async_turn_off_flips(m) == async_update_ha_state([m EXCEPT !.self._ack = ~@])

\* Alert.async_turn_off
async_turn_off(m) == async_update_ha_state([m EXCEPT !.self._ack = TRUE])

\* async_toggle with the branches of lines 277-279 swapped
async_toggle_swapped(m) == IF m.self._ack THEN async_turn_off(m) ELSE async_turn_on(m)

\* Alert.async_toggle
async_toggle(m) == IF m.self._ack THEN async_turn_on(m) ELSE async_turn_off(m)

(***************************************************************************)
(* State machine                                                           *)
(***************************************************************************)
\* Alert.__init__ with the flag of line 167 set
NewAlert_done_pending(alert_state, repeat, skip_first, can_ack) ==
    [_alert_state |-> alert_state,
     _skip_first |-> skip_first,
     _can_ack |-> can_ack,
     _delay |-> repeat,
     _next_delay |-> 0,
     _triggered |-> FALSE,
     _ack |-> FALSE,
     _cancel |-> None,
     _execute_done_script |-> TRUE]

\* Alert.__init__
NewAlert(alert_state, repeat, skip_first, can_ack) ==
    [_alert_state |-> alert_state,
     _skip_first |-> skip_first,
     _can_ack |-> can_ack,
     _delay |-> repeat,
     _next_delay |-> 0,
     _triggered |-> FALSE,
     _ack |-> FALSE,
     _cancel |-> None,
     _execute_done_script |-> FALSE]

\* nothing has happened since the entry: no triggered action called, no
\* callback run unacknowledged, no timer scheduled, no done action called
NoHistory == [invoked |-> FALSE, unacked_fire |-> FALSE, nsched |-> 0, dones |-> 0]

\* the host is not part of the run: one Alert object on its own
NoHass == [setup |-> "none"]

NoHandler ==
    [op |-> "init", arg |-> "", pre_ack |-> FALSE, prev_op |-> "other"]
    @@ NoEffects

Init ==
    /\ \E alert_state \in AlertStates, repeat \in RepeatLists,
          skip_first \in BOOLEAN, can_ack \in BOOLEAN :
          self = NewAlert(alert_state, repeat, skip_first, can_ack)
    /\ timers = NoTimers
    /\ fired = 0
    /\ published = NoState
    /\ last = NoHandler
    /\ hist = NoHistory
    /\ hass = NoHass

\* the three operations of the control surface
AckOps == {"async_turn_on", "async_turn_off", "async_toggle"}

Here == Machine(self, timers, fired, published)

\* the handler `op` has run to completion with result m
Commit(op, arg, m) ==
    /\ self' = m.self
    /\ timers' = m.timers
    /\ fired' = m.fired
    /\ published' = m.published
    /\ hass' = hass
    /\ last' = [op |-> op, arg |-> arg,
                pre_ack |-> self._ack,
                prev_op |-> IF op \in AckOps /\ last.op \in AckOps THEN last.op ELSE "other"]
               @@ m.out
    /\ hist' = LET h == IF m.out.begun THEN NoHistory ELSE hist
               IN [invoked |-> h.invoked \/ TRIGGERED \in Range(Args(m.out.calls, "_execute_script")),
                   unacked_fire |-> h.unacked_fire
                                    \/ (op = "_trigger" /\ self._triggered /\ ~self._ack),
                   nsched |-> Min(h.nsched + Len(Args(m.out.calls, "async_track_point_in_time")),
                                  MaxSched),
                   dones |-> Min(h.dones + Cardinality({i \in DOMAIN m.out.calls :
                                     m.out.calls[i] = Call("_execute_script", DONE)}),
                                 MaxSched)]

\* the watched entity reports a new state
WatchedEntityChange ==
    \E to_state \in WatchedStates, fails \in BOOLEAN :
        /\ (to_state = self._alert_state /\ ~self._triggered)
              => Outstanding(timers, fired) < MaxTimers
        /\ Commit("watched_entity_change", to_state,
                  watched_entity_change(WithScripts(Here, fails), to_state))

\* a pending timer reaches its point in time: it is no longer pending and
\* its callback is queued
TimerExpire ==
    /\ \/ timers.held = 1 /\ timers' = [timers EXCEPT !.held = 0]
       \/ timers.orphaned > 0 /\ timers' = [timers EXCEPT !.orphaned = @ - 1]
    /\ fired' = fired + 1
    /\ UNCHANGED <<self, published, last, hist, hass>>

\* the queued callback of an expired timer runs: Alert._trigger(now)
TimerFire ==
    /\ fired > 0
    /\ \E fails \in BOOLEAN :
          Commit("_trigger", "",
                 _trigger(WithScripts(Machine(self, timers, fired - 1, published), fails)))

\* alert.turn_on service / entity operation
TurnOn == Commit("async_turn_on", "", async_turn_on(Here))

\* alert.turn_off service / entity operation
TurnOff == Commit("async_turn_off", "", async_turn_off(Here))

\* alert.toggle service / entity operation
Toggle == Commit("async_toggle", "", async_toggle(Here))

Next ==
    \/ WatchedEntityChange
    \/ TimerExpire
    \/ TimerFire
    \/ TurnOn
    \/ TurnOff
    \/ Toggle

Spec == Init /\ [][Next]_vars

\* every repeat list ALERT_SCHEMA accepts, the empty one among them
\* (cv.ensure_list and [vol.Coerce(float)] accept a list without entries)
AnyRepeatLists == RepeatLists \cup {<<>>}

InitAny ==
    /\ \E alert_state \in AlertStates, repeat \in AnyRepeatLists,
          skip_first \in BOOLEAN, can_ack \in BOOLEAN :
          self = NewAlert(alert_state, repeat, skip_first, can_ack)
    /\ timers = NoTimers
    /\ fired = 0
    /\ published = NoState
    /\ last = NoHandler
    /\ hist = NoHistory
    /\ hass = NoHass

SpecAny == InitAny /\ [][Next]_vars

\* the timer helper calls back at or after the point in time, so a pending
\* timer does expire; the event loop runs every task it has queued, so an
\* expired timer's callback is delivered
Fairness == WF_vars(TimerExpire) /\ WF_vars(TimerFire)

\* the alerts whose repeat is followed for ever: can_acknowledge at its
\* default (it is read by Alert.hidden only) and the repeat lists of every
\* length that start with the delay 0 (no code branches on a delay)
InitFair ==
    /\ \E alert_state \in AlertStates, repeat \in {r \in RepeatLists : r[1] = 0},
          skip_first \in BOOLEAN :
          self = NewAlert(alert_state, repeat, skip_first, DEFAULT_CAN_ACK)
    /\ timers = NoTimers
    /\ fired = 0
    /\ published = NoState
    /\ last = NoHandler
    /\ hist = NoHistory
    /\ hass = NoHass

SpecFair == InitFair /\ [][Next]_vars /\ Fairness

(***************************************************************************)
(* The component in its host: async_setup and the alert services           *)
(***************************************************************************)
ALERT_DOMAIN     == "alert"       \* const.DOMAIN
SERVICE_TURN_ON  == "turn_on"
SERVICE_TURN_OFF == "turn_off"
SERVICE_TOGGLE   == "toggle"
Services         == {SERVICE_TURN_ON, SERVICE_TURN_OFF, SERVICE_TOGGLE}

\* ENTITY_ID_FORMAT.format(object_id): "alert." followed by the object id
ENTITY_ID_FORMAT(object_id) == <<ALERT_DOMAIN, object_id>>

\* keys of config[DOMAIN]
ObjectIds == 1..MaxAlerts

\* one entry of config[DOMAIN] after ALERT_SCHEMA
Cfgs == [repeat : {<<1>>}, skip_first : BOOLEAN, can_ack : BOOLEAN]

\* config[DOMAIN]: any number of alerts up to MaxAlerts, none included
Configs == UNION {[ids -> Cfgs] : ids \in SUBSET ObjectIds}

\* entity ids a service call may name: the alerts that can be configured,
\* an alert that is not, and an entity of another domain with the object id
\* of an alert
CallIds == {ENTITY_ID_FORMAT(o) : o \in 1..(MaxAlerts + 1)} \cup {<<"light", 1>>}

NoCall == [service |-> "none", ids |-> {}]

\* the Alert appended to entities at lines 79-92, as the host holds it
Entity(object_id, cfg) ==
    [entity_id |-> ENTITY_ID_FORMAT(object_id),
     self |-> NewAlert(STATE_ON, cfg.repeat, cfg.skip_first, cfg.can_ack),
     timers |-> NoTimers,
     fired |-> 0,
     published |-> NoState]

\* async_setup.  The body of the loop over config[DOMAIN] evaluates
\* cfg.get[CONF_TRIGGERED] at line 76: a subscript of the bound method
\* cfg.get, which raises TypeError for every cfg, before the first
\* entities.append (line 79).  With a configuration that has an alert the
\* function ends there; with an empty one the loop has no iteration,
\* entities is empty and line 95 returns False.  Lines 97-132 (the
\* definition of the handler, the registration of the services and the
\* first state update) are reached on neither path.
async_setup(h) ==
    IF DOMAIN h.config # {}
    THEN [h EXCEPT !.setup = "TypeError"]
    ELSE [h EXCEPT !.setup = "False"]

\* the branch of lines 105-110 on one alert
alert_service(e, service) ==
    LET m  == Machine(e.self, e.timers, e.fired, e.published)
        m1 == IF service = SERVICE_TURN_ON THEN async_turn_on(m)
              ELSE IF service = SERVICE_TOGGLE THEN async_toggle(m)
              ELSE async_turn_off(m)
    IN [e EXCEPT !.self = m1.self, !.timers = m1.timers,
                 !.fired = m1.fired, !.published = m1.published]

\* the loop `for alert in entities` of lines 101-110 for one alert_id
handle_alert_id(entities, service, alert_id) ==
    [i \in DOMAIN entities |->
        IF entities[i].entity_id # alert_id THEN entities[i]
        ELSE alert_service(entities[i], service)]

\* async_handle_alert_service: the loop `for alert_id in alert_ids`
RECURSIVE async_handle_alert_service(_, _, _)
async_handle_alert_service(entities, service, alert_ids) ==
    IF alert_ids = {} THEN entities
    ELSE LET alert_id == CHOOSE id \in alert_ids : TRUE
         IN async_handle_alert_service(handle_alert_id(entities, service, alert_id),
                                       service, alert_ids \ {alert_id})

InitHass ==
    /\ \E config \in Configs :
          hass = [config |-> config, setup |-> "pending", entities |-> <<>>,
                  services |-> {}, call |-> NoCall]
    /\ self = NewAlert(STATE_ON, <<1>>, FALSE, TRUE)
    /\ timers = NoTimers
    /\ fired = 0
    /\ published = NoState
    /\ last = NoHandler
    /\ hist = NoHistory

\* the host sets the component up
Setup ==
    /\ hass.setup = "pending"
    /\ hass' = async_setup(hass)
    /\ UNCHANGED <<self, timers, fired, published, last, hist>>

\* a call of alert.turn_on, alert.turn_off or alert.toggle with entity ids
\* once the setup has ended: the handler registered for the service runs,
\* if one is registered
ServiceCall ==
    /\ hass.setup # "pending"
    /\ \E service \in Services, alert_ids \in SUBSET CallIds :
          hass' = [hass EXCEPT
                      !.entities = IF service \in hass.services
                                   THEN async_handle_alert_service(@, service, alert_ids)
                                   ELSE @,
                      !.call = [service |-> service, ids |-> alert_ids]]
    /\ UNCHANGED <<self, timers, fired, published, last, hist>>

NextHass == Setup \/ ServiceCall

SpecHass == InitHass /\ [][NextHass]_vars

TypeOK ==
    /\ self._triggered \in BOOLEAN
    /\ self._ack \in BOOLEAN
    /\ self._execute_done_script \in BOOLEAN
    /\ self._next_delay \in 0..(Len(self._delay) - 1)
    /\ self._cancel \in {None, Handle}
    /\ timers.held \in 0..1
    /\ Outstanding(timers, fired) <= MaxTimers
    /\ Args(last.calls, "async_run") = <<>>
    /\ last.raised = ""

(***************************************************************************)
(* Properties                                                              *)
(***************************************************************************)
\* number of calls _execute_script(script) the last handler made
Invocations(script) ==
    Cardinality({i \in DOMAIN last.calls :
                    last.calls[i] = Call("_execute_script", script)})

\* delays of the timers the last handler scheduled, handles it cancelled
Delays  == Args(last.calls, "async_track_point_in_time")
Cancels == Args(last.calls, "_cancel")

\* this step is a handler that changed the object, what is published or the
\* record of the last handler (TimerExpire changes none of them)
HandlerStep == <<self, published, last>>' # <<self, published, last>>

C2_IdleNeverAcknowledged == ~self._triggered => ~self._ack

\* C2 (amended): acknowledged is false right after every enter and every
\* exit transition, and a not-triggered alert becomes acknowledged only by
\* async_turn_off or async_toggle applied while it is not triggered.
C2_IdleAcknowledgedOnlyByOperation ==
    [][/\ (HandlerStep /\ (last'.begun \/ last'.ended)) => ~self'._ack
       /\ (~self'._triggered /\ self'._ack)
            => /\ ~self._triggered
               /\ self._ack \/ last'.op \in {"async_turn_off", "async_toggle"}]_vars

\* an idle alert has been acknowledged by a toggle after an earlier episode
C2_Witness ==
    /\ ~self._triggered
    /\ self._ack
    /\ last.op = "async_toggle"
    /\ self._cancel # None

C4_UpdateTransitions ==
    [][(HandlerStep /\ last'.op = "watched_entity_change") =>
         /\ last'.begun <=> (last'.arg = self._alert_state /\ ~self._triggered)
         /\ last'.ended <=> (last'.arg # self._alert_state /\ self._triggered)
         /\ last'.begun => self'._triggered
         /\ last'.ended => ~self'._triggered
         /\ (~last'.begun /\ ~last'.ended)
              => /\ UNCHANGED <<self, timers, fired, published>>
                 /\ last'.calls = <<>>]_vars

\* a matching update has arrived while triggered and was ignored
C4_Witness ==
    /\ last.op = "watched_entity_change"
    /\ last.arg = self._alert_state
    /\ self._triggered
    /\ ~last.begun
    /\ last.calls = <<>>
    /\ timers.held = 1

\* C5: the k-th timer scheduled since entry uses _delay[min(k-1, len-1)],
\* acknowledged or not; the cursor advances on every schedule and never
\* exceeds len-1.
C5_DelaySequence ==
    LET len == Len(self._delay)
        k   == hist.nsched
    IN /\ self._next_delay <= len - 1
       /\ Len(Delays) <= 1
       /\ (Len(Delays) = 1 /\ k < MaxSched)
            => Delays[1] = self._delay[Min(k - 1, len - 1) + 1]
       /\ (self._triggered /\ k < MaxSched) => self._next_delay = Min(k, len - 1)

\* the fourth timer of an episode was scheduled while acknowledged, with the
\* last delay of a three-entry list, the cursor staying on the last entry
C5_Witness ==
    /\ last.op = "_trigger"
    /\ last.pre_ack
    /\ hist.nsched = 4
    /\ Len(self._delay) = 3
    /\ self._delay[2] # self._delay[3]
    /\ Delays = <<self._delay[3]>>
    /\ self._next_delay = 2

C8_StatusDerived ==
    LET status == IF self._triggered /\ ~self._ack THEN STATE_ON
                  ELSE IF self._triggered /\ self._ack THEN STATE_OFF
                  ELSE STATE_IDLE
        visible == self._can_ack /\ self._triggered
    IN /\ state(self) = status
       /\ hidden(self) = ~visible
       /\ published # NoState => published = [state |-> status, hidden |-> ~visible]

\* an acknowledged, not triggered alert is published as idle
C8_Witness ==
    /\ ~self._triggered
    /\ self._ack
    /\ published = [state |-> STATE_IDLE, hidden |-> TRUE]

\* C9: a toggle right after async_turn_off leaves the alert unacknowledged,
\* right after async_turn_on leaves it acknowledged, and right after a
\* toggle restores the flag to its value before that toggle.
C9_ToggleInverse ==
    [][(HandlerStep /\ last'.op = "async_toggle") =>
         /\ last.op = "async_turn_off" => ~self'._ack
         /\ last.op = "async_turn_on" => self'._ack
         /\ last.op = "async_toggle" => self'._ack = last.pre_ack]_vars

\* two toggles in a row on a triggered alert
C9_Witness ==
    /\ last.op = "async_toggle"
    /\ last.prev_op = "async_toggle"
    /\ self._triggered
    /\ self._ack

\* C10: async_turn_off right after async_turn_off, and async_turn_on right
\* after async_turn_on, leaves the object and the timers as they were.
C10_AckIdempotent ==
    [][(HandlerStep /\ last'.op = last.op
          /\ last.op \in {"async_turn_on", "async_turn_off"})
         => UNCHANGED <<self, timers, fired, published>>]_vars

\* two async_turn_off in a row on a triggered alert with a pending timer
C10_Witness ==
    /\ last.op = "async_turn_off"
    /\ last.prev_op = "async_turn_off"
    /\ self._triggered
    /\ timers.held = 1

\* C11: a service call with a set of entity ids applies the operation to
\* every alert whose entity id is in the set: after alert.turn_off every
\* configured alert named in the call is an entity of the component and is
\* acknowledged, after alert.turn_on it is one and is not acknowledged.
C11_ServiceAppliesToNamed ==
    \A object_id \in DOMAIN hass.config :
        ENTITY_ID_FORMAT(object_id) \in hass.call.ids =>
            \E i \in DOMAIN hass.entities :
                /\ hass.entities[i].entity_id = ENTITY_ID_FORMAT(object_id)
                /\ hass.call.service = SERVICE_TURN_OFF => hass.entities[i].self._ack
                /\ hass.call.service = SERVICE_TURN_ON => ~hass.entities[i].self._ack

\* C12: every entry into the triggered condition clears the acknowledgement
\* and restarts the cursor before it schedules: right after the entry the
\* alert is unacknowledged and its state is "on", the one timer the entry
\* scheduled has the first delay of the list, and the cursor is one past it
\* (clamped), whatever acknowledgement and cursor the alert had before.
C12_EntryResets ==
    last.begun =>
        /\ self._triggered /\ ~self._ack
        /\ state(self) = STATE_ON /\ published.state = STATE_ON
        /\ Delays = <<self._delay[1]>>
        /\ self._next_delay = Min(1, Len(self._delay) - 1)
        /\ hist.nsched = 1

\* a re-entry: the alert was acknowledged when the entry began and a
\* callback of the episode before is still queued, so that episode had
\* moved the cursor of this three-entry list
C12_Witness ==
    /\ last.begun
    /\ last.pre_ack
    /\ fired > 0
    /\ Len(self._delay) = 3
    /\ Delays = <<self._delay[1]>>

\* C13: async_turn_on, async_turn_off and async_toggle change no field of
\* the alert but _ack: the trigger flag, the cursor, the pending-done flag
\* and the stored cancel function stay as they are, the timers pending and
\* expired stay as they are, and the only call made is the state update,
\* so neither action is called and no timer is scheduled or cancelled.
C13_AckOpsFrame ==
    [][(HandlerStep /\ last'.op \in AckOps) =>
          /\ self' = [self EXCEPT !._ack = self'._ack]
          /\ timers' = timers
          /\ fired' = fired
          /\ last'.calls = <<Call("async_update_ha_state", 0)>>]_vars

\* an acknowledgement of a triggered alert whose timer is pending, whose
\* cursor has moved to the end of a three-entry list and whose done action
\* is pending
C13_Witness ==
    /\ last.op = "async_turn_off"
    /\ ~last.pre_ack /\ self._ack
    /\ self._triggered
    /\ self._execute_done_script
    /\ self._next_delay = 2
    /\ timers.held = 1

\* C14: at most one timer of the alert is pending in every reachable state,
\* under every interleaving of the handlers with the delivery of expired
\* timers' callbacks.
C14_AtMostOneTimer == timers.held + timers.orphaned <= 1

\* C15: a timer callback delivered while the alert is not triggered does
\* nothing: it calls no action, schedules no timer, publishes nothing and
\* leaves every field of the alert (the pending-done flag, the
\* acknowledgement and the cursor among them) as it was.
C15_StaleFireNoOp ==
    [][(HandlerStep /\ last'.op = "_trigger" /\ ~self._triggered) =>
          /\ self' = self
          /\ timers' = timers
          /\ published' = published
          /\ last'.calls = <<>>]_vars

\* the callback of an expired timer ran after the exit, on an idle alert
\* that had been acknowledged since and whose cursor the episode had moved
C15_Witness ==
    /\ last.op = "_trigger"
    /\ last.calls = <<>>
    /\ ~self._triggered
    /\ self._ack
    /\ self._next_delay >= 1
    /\ ~self._execute_done_script

\* C19: with a repeat list that is not empty a triggered alert always has
\* a repeat ahead of it: the timer of the stored cancel function is pending
\* or an expired timer's callback is queued and will schedule the next one;
\* and the cancel function is stored, so the call self._cancel() of an exit
\* has a function to call.
C19_TriggeredHasTimer ==
    (Len(self._delay) > 0 /\ self._triggered) =>
        /\ timers.held = 1 \/ fired > 0
        /\ self._cancel = Handle

\* an acknowledged alert after its third schedule of the episode: the
\* timer callback ran and the next timer is pending
C19_Witness ==
    /\ self._triggered
    /\ self._ack
    /\ last.op = "_trigger"
    /\ hist.nsched >= 3
    /\ timers.held = 1
    /\ self._cancel = Handle

\* C20: the pending-done flag is clear whenever the alert is not triggered,
\* so every episode starts with it clear: after an entry it is set exactly
\* if that entry called the triggered action.  Since the most recent entry
\* the done action has been called at most once, and only if the triggered
\* action was called in that same episode; every call of the done action
\* is thereby matched by an entry of its own.
C20_DoneFlagPerEpisode ==
    /\ ~self._triggered => ~self._execute_done_script
    /\ last.begun => (self._execute_done_script <=> Invocations(TRIGGERED) = 1)
    /\ hist.dones <= 1
    /\ hist.dones = 1 => (hist.invoked /\ ~self._triggered)

\* a re-entry that skips its first notification: the callback of a timer
\* of the episode before is still queued, the new episode starts with the
\* flag clear and nothing called
C20_Witness ==
    /\ last.begun
    /\ fired > 0
    /\ self._skip_first
    /\ ~self._execute_done_script
    /\ ~hist.invoked
    /\ hist.dones = 0

C18_EmptyListSingleFire ==
    Len(self._delay) = 0 =>
        /\ last.raised = ""
        /\ self._next_delay = 0
        /\ Outstanding(timers, fired) = 0
        /\ (last.op = "watched_entity_change" /\ last.arg # self._alert_state)
              => ~self._triggered

====
